---- MODULE Spec2Model ----
(***************************************************************************)
(* TRPO agent (src/baselines/TRPO/agent.py): Agent.learn, Agent.get_loss,  *)
(* Agent.cg and Agent.line_search as state machines.                       *)
(*                                                                         *)
(* Encoding of numbers.                                                    *)
(*  - The policy's ParameterVector is a point on the search line           *)
(*    old_theta + t * fullstep; it is an integer, in units chosen so that  *)
(*    0.5^i * fullstep is exact for every i < ls_iters.                    *)
(*  - Losses, gradients and rewards are integers; returns are integers in  *)
(*    units of 1/Scale so that the products by reward_gamma are exact.     *)
(*  - accept_ratio is a fraction <<num, den>>, den > 0.                    *)
(*  - expected_improve_rate is a sign and a magnitude, so that the IEEE    *)
(*    quotient by +0.0 or -0.0 (numpy.float64, line 158) is computed       *)
(*    as the code computes it.                                             *)
(*  - cg runs in exact arithmetic on rationals <<num, den>> in lowest      *)
(*    terms, den > 0. A vector is c * u, a rational c times an integer     *)
(*    vector u whose entries have no common factor: the products of cg     *)
(*    then stay within TLC's integers.                                     *)
(***************************************************************************)
EXTENDS Integers, Sequences, FiniteSets, TLC

\* ---------------------------------------------------------------- bounds
MaxIter == 2
MaxEpisodes == 2
MaxEpisodeLen == 3
MaxBatchSize == 2
MaxFullSteps == 1
MaxLsIters == 3
MaxLoss == 1
MaxEir == 3
MaxCgIters == 2
MaxDiag == 3
MaxOff == 1
MaxB == 3

\* reward_gamma = 0.9 = GammaNum / GammaDen
GammaNum == 9
GammaDen == 10
\* numpy.allclose(pg, 0): |pg| <= atol + rtol * 0; gradients are in units of atol
Atol == 1

RECURSIVE Pow(_, _)
Pow(b, n) == IF n = 0 THEN 1 ELSE b * Pow(b, n - 1)

Abs(n) == IF n < 0 THEN -n ELSE n

\* One return unit is 1/Scale of a reward unit.
Scale == Pow(GammaDen, MaxEpisodeLen - 1)

Rewards == {0, 1}
LossVals == 0..MaxLoss
PgVals == {-2, -1, 0, 1, 2}
\* A full step is FullUnit parameter units, so that 0.5^i of it is a whole number.
FullUnit == Pow(2, MaxLsIters - 1)
FullSteps == {k * FullUnit : k \in {-1, 0, 1}}
EIRs == [sgn : {-1, 1}, mag : 0..MaxEir]
AcceptRatios == {<<9, 10>>, <<0, 1>>, <<-1, 1>>}
NoResult == <<FALSE, 0>>

VARIABLES
  \* Agent fields and the arguments of learn
  accept_ratio, ls_iters, max_iter, batch_size, sample_episodes,
  \* the environment: its rewards and the length its episodes stay within
  env_rewards, env_max_len,
  \* control
  pc,
  \* the live policy's ParameterVector (self._policy.parameters())
  theta,
  \* learn: trajectory collection
  i_iter, n_ep, episode_len, trajectories, i,
  \* learn: batch training
  index, pg, pg_at, old_theta, fullstep, expected_improve_rate, result,
  theta_before, ran,
  \* line_search and get_loss
  x, fval, ls_i, actual_improve, new_model,
  \* SpecLS: the losses f returned at the candidates tried, in order
  evals,
  \* Agent fields read by cg
  cg_iters, cg_tol,
  \* cg: the operator fvp (a symmetric matrix <<a, o, d>> for [[a, o], [o, d]]),
  \* the arguments and locals, the number of calls of fvp, and rdotr at the
  \* start and after each pass of the loop
  fvp_A, b, p, r, cg_x, rdotr, cg_i, fvp_calls, rr_hist

cfgVars == <<accept_ratio, ls_iters, max_iter, batch_size, sample_episodes,
             env_rewards, env_max_len>>
collectVars == <<i_iter, n_ep, episode_len, trajectories, i>>
batchVars == <<index, pg, pg_at, old_theta, fullstep, expected_improve_rate, result,
               theta_before, ran>>
lsVars == <<x, fval, ls_i, actual_improve, new_model>>
cgVars == <<cg_iters, cg_tol, fvp_A, b, p, r, cg_x, rdotr, cg_i, fvp_calls, rr_hist>>
learnVars == <<cfgVars, theta, collectVars, batchVars, lsVars>>
vars == <<cfgVars, pc, theta, collectVars, batchVars, lsVars, evals, cgVars>>

\* ------------------------------------------------ trajectory collection

\* 1-based position of Python index k in a list of length n (negative k counts
\* from the end).
PyIdx(n, k) == IF k < 0 THEN n + k + 1 ELSE k + 1

\* ret * reward_gamma (line 75), in return units.
Discounted(ret) == (ret * GammaNum) \div GammaDen

\* The upper end of xrange(1, episode_len) (line 74), exclusive.
DiscountBoundAll(len, total) == total
DiscountBound(len, total) == len

\* for i_iter in xrange(max_iter) (line 57) and trajectories = [[],[],[],[]] (59)
IterStart ==
  /\ pc = "iter"
  /\ IF i_iter < max_iter
     THEN /\ trajectories' = <<>>
          /\ n_ep' = 0
          /\ pc' = "episode"
     ELSE /\ pc' = "returned"
          /\ UNCHANGED <<trajectories, n_ep>>
  /\ UNCHANGED <<cfgVars, theta, i_iter, episode_len, i, batchVars, lsVars>>

\* for _ in xrange(sample_episodes): s = env.reset(); episode_len = 0 (60-64);
\* past the last episode, the batch loop starts at index 0 (78).
EpisodeStart ==
  /\ pc = "episode"
  /\ IF n_ep < sample_episodes
     THEN /\ episode_len' = 0
          /\ pc' = "step"
          /\ UNCHANGED index
     ELSE /\ index' = 0
          /\ pc' = "batch"
          /\ UNCHANGED episode_len
  /\ UNCHANGED <<cfgVars, theta, i_iter, n_ep, trajectories, i,
                 pg, pg_at, old_theta, fullstep, expected_improve_rate, result,
                 theta_before, ran, lsVars>>

\* One pass of `while not done` (65-73): act under the live parameters, step the
\* environment, append the record. p_at is the ParameterVector the stored
\* probability p (and its autograd graph) was computed under (line 52); rew and
\* ep record the environment's reward and the episode of the step.
EnvStep ==
  /\ pc = "step"
  /\ \E rew \in env_rewards, done \in BOOLEAN :
       /\ (episode_len + 1 = env_max_len) => done
       /\ episode_len' = episode_len + 1
       /\ trajectories' = Append(trajectories,
             [ret |-> rew * Scale, p_at |-> theta, rew |-> rew, ep |-> n_ep])
       /\ IF done
          THEN pc' = "discount" /\ i' = 1
          ELSE pc' = "step" /\ UNCHANGED i
  /\ UNCHANGED <<cfgVars, theta, i_iter, n_ep, batchVars, lsVars>>

\* for i in xrange(1, episode_len):
\*     trajectories[2][-i-1][0] += trajectories[2][-i][0] * self.reward_gamma
Discount ==
  /\ pc = "discount"
  /\ LET n == Len(trajectories)
         dst == PyIdx(n, -i - 1)
         src == PyIdx(n, -i)
     IN IF i < DiscountBound(episode_len, n)
        THEN /\ trajectories' = [trajectories EXCEPT
                  ![dst].ret = @ + Discounted(trajectories[src].ret)]
             /\ i' = i + 1
             /\ UNCHANGED <<pc, n_ep>>
        ELSE /\ n_ep' = n_ep + 1
             /\ pc' = "episode"
             /\ UNCHANGED <<trajectories, i>>
  /\ UNCHANGED <<cfgVars, theta, i_iter, episode_len, batchVars, lsVars>>

\* ------------------------------------------------------- batch training

\* numpy.allclose(pg, 0) (line 100)
AllCloseZero(g) == Abs(g) <= Atol

\* for index in xrange(0, len(trajectories[0]), batch_size): load the batch, the
\* baseline and the advantage, one optimizer step on the value model (78-93).
\* Past the last batch the iteration ends. theta_before and ran record, for the
\* batch, the parameters at its start and the steps of learn that ran.
BatchStart ==
  /\ pc = "batch"
  /\ IF index < Len(trajectories)
     THEN /\ theta_before' = theta
          /\ ran' = {"baseline", "advantage"}
          /\ pc' = "pg"
          /\ UNCHANGED i_iter
     ELSE /\ i_iter' = i_iter + 1
          /\ pc' = "iter"
          /\ UNCHANGED <<theta_before, ran>>
  /\ UNCHANGED <<cfgVars, theta, n_ep, episode_len, trajectories, i,
                 index, pg, pg_at, old_theta, fullstep, expected_improve_rate,
                 result, lsVars>>

\* The parameters the batch's probabilities b_p were computed under: new_probs is
\* b_p.gather(1, b_a), the probabilities stored by act (lines 52, 72, 82, 96).
GradPoint(batch_p_at, live) == batch_p_at

\* new_probs, old_probs, obj and pg = flatten_grad(parameters, -obj) (96-99). The
\* gradient's value depends on the networks and the data: any value.
PolicyGradient ==
  /\ pc = "pg"
  /\ \E g \in PgVals : pg' = g
  /\ pg_at' = GradPoint(trajectories[index + 1].p_at, theta)
  /\ ran' = ran \cup {"pg"}
  /\ pc' = "check"
  /\ UNCHANGED <<cfgVars, theta, collectVars, index, old_theta, fullstep,
                 expected_improve_rate, result, theta_before, lsVars>>

\* if numpy.allclose(pg, 0): logger.warn(...) (100-101)
SkipsUpdateNever(g) == FALSE
SkipsUpdate(g) == AllCloseZero(g)

ZeroGradient ==
  /\ pc = "check"
  /\ SkipsUpdate(pg)
  /\ ran' = ran \cup {"warn"}
  /\ pc' = "batch_end"
  /\ UNCHANGED <<cfgVars, theta, collectVars, index, pg, pg_at, old_theta,
                 fullstep, expected_improve_rate, result, theta_before, lsVars>>

\* else: fvp, stepdir = cg(fvp, -pg), shs, lm, fullstep, expected_improve_rate,
\* loss_fun, old_theta (102-111). The step depends on the Fisher operator of the
\* policy network: any value, with the parameters a full step away within
\* MaxFullSteps full steps of 0. The rate is -pg . stepdir / lm, which is positive
\* for stepdir = cg(fvp, -pg) under a positive-definite fvp.
ComputeStep ==
  /\ pc = "check"
  /\ ~SkipsUpdate(pg)
  /\ \E fs \in FullSteps, e \in {rate \in EIRs : rate.sgn = 1 /\ rate.mag > 0} :
       /\ Abs(theta + fs) <= MaxFullSteps * FullUnit
       /\ fullstep' = fs
       /\ expected_improve_rate' = e
  /\ old_theta' = theta
  /\ ran' = ran \cup {"fvp", "cg"}
  /\ pc' = "ls_call"
  /\ UNCHANGED <<cfgVars, theta, collectVars, index, pg, pg_at, result,
                 theta_before, x, fval, ls_i, actual_improve, new_model>>

\* ------------------------------------------------ get_loss and line_search

\* get_loss(theta, ...) (116-122): new_model = copy.deepcopy(self._policy);
\* vector_to_parameters(theta, new_model.parameters()). The candidate goes into
\* the copy; the live policy is read (prob_old) and not written.
get_loss_in_place(cand) == theta' = cand /\ new_model' = new_model
get_loss(cand) == new_model' = cand /\ theta' = theta

\* The value f returns at cand, given f(start) = at_start: the loss is any value,
\* and f is a function, so f(start) is the same at every evaluation. (The
\* candidates x + 0.5^i * fullstep are pairwise distinct unless fullstep = 0, when
\* all of them are x.)
LossAt(cand, v, start, at_start) ==
  /\ v \in LossVals
  /\ cand = start => v = at_start

\* stepfrac * fullstep with stepfrac = 0.5 ** i (154-155)
StepFrac(fs, k) == fs \div Pow(2, k)

\* actual_improve / (stepfrac * expected_improve_rate) > self.accept_ratio (158),
\* for actual_improve > 0: the quotient by +0.0 is +inf and by -0.0 is -inf.
RatioAccepts(improve, k, e, ratio) ==
  IF e.mag = 0
  THEN e.sgn = 1
  ELSE e.sgn * improve * Pow(2, k) * ratio[2] > ratio[1] * e.mag

\* if actual_improve > 0: if ratio test: return True, xi (157-159)
AcceptsNoImproveTest(improve, k, e, ratio) == RatioAccepts(improve, k, e, ratio)
Accepts(improve, k, e, ratio) ==
  improve > 0 /\ RatioAccepts(improve, k, e, ratio)

\* success, new_theta = self.line_search(loss_fun, old_theta, fullstep,
\* expected_improve_rate) (112): the call, and fval = f(x) (152).
LsStart ==
  /\ pc = "ls_call"
  /\ x' = old_theta
  /\ \E v \in LossVals : fval' = v
  /\ get_loss(old_theta)
  /\ ls_i' = 0
  /\ actual_improve' = 0
  /\ result' = NoResult
  /\ ran' = ran \cup {"line_search"}
  /\ pc' = "ls_loop"
  /\ UNCHANGED <<cfgVars, collectVars, index, pg, pg_at, old_theta, fullstep,
                 expected_improve_rate, theta_before>>

\* The last iteration of xrange(self.ls_iters) (153).
LsItersShort(n) == n - 1
LsIters(n) == n

\* One pass of the loop (153-159).
LsIter ==
  /\ pc = "ls_loop"
  /\ ls_i < LsIters(ls_iters)
  /\ LET xi == x + StepFrac(fullstep, ls_i)
     IN \E v \in LossVals :
          /\ LossAt(xi, v, x, fval)
          /\ get_loss(xi)
          /\ actual_improve' = fval - v
          /\ IF Accepts(fval - v, ls_i, expected_improve_rate, accept_ratio)
             THEN /\ result' = <<TRUE, xi>>
                  /\ pc' = "ls_ret"
                  /\ UNCHANGED ls_i
             ELSE /\ ls_i' = ls_i + 1
                  /\ UNCHANGED <<result, pc>>
  /\ UNCHANGED <<cfgVars, collectVars, index, pg, pg_at, old_theta, fullstep,
                 expected_improve_rate, theta_before, ran, x, fval>>

\* return False, x (160)
LsExhaust ==
  /\ pc = "ls_loop"
  /\ ls_i >= LsIters(ls_iters)
  /\ result' = <<FALSE, x>>
  /\ pc' = "ls_ret"
  /\ UNCHANGED <<cfgVars, theta, collectVars, index, pg, pg_at, old_theta,
                 fullstep, expected_improve_rate, theta_before, ran, lsVars>>

\* if success: vector_to_parameters(new_theta, self._policy.parameters()) (113-114)
InstallsNever(success) == FALSE
Installs(success) == success

Install ==
  /\ pc = "ls_ret"
  /\ IF Installs(result[1])
     THEN /\ theta' = result[2]
          /\ ran' = ran \cup {"install"}
     ELSE UNCHANGED <<theta, ran>>
  /\ pc' = "batch_end"
  /\ UNCHANGED <<cfgVars, collectVars, index, pg, pg_at, old_theta, fullstep,
                 expected_improve_rate, result, theta_before, lsVars>>

\* The locals of a batch's body, which the next batch writes before it reads.
BatchLocalsCleared ==
  /\ pg' = 0 /\ pg_at' = 0 /\ old_theta' = 0 /\ fullstep' = 0
  /\ expected_improve_rate' = [sgn |-> 1, mag |-> 0]
  /\ result' = NoResult /\ theta_before' = 0 /\ ran' = {}
  /\ x' = 0 /\ fval' = 0 /\ ls_i' = 0 /\ actual_improve' = 0 /\ new_model' = 0

\* The end of the batch loop's body: the next index of xrange(0, n, batch_size).
BatchEnd ==
  /\ pc = "batch_end"
  /\ index' = index + batch_size
  /\ pc' = "batch"
  /\ BatchLocalsCleared
  /\ UNCHANGED <<cfgVars, theta, collectVars>>

\* ------------------------------------------------------------------ cg

RECURSIVE Gcd(_, _)
Gcd(m, n) == IF n = 0 THEN m ELSE Gcd(n, m % n)

RNorm(n, d) == LET g == Gcd(Abs(n), d) IN <<n \div g, d \div g>>
RInt(n) == <<n, 1>>
RNeg(q) == <<-q[1], q[2]>>
RMul(q1, q2) ==
  LET g1 == Gcd(Abs(q1[1]), q2[2])
      g2 == Gcd(Abs(q2[1]), q1[2])
      n == (q1[1] \div g1) * (q2[1] \div g2)
  IN IF n = 0 THEN <<0, 1>> ELSE <<n, (q1[2] \div g2) * (q2[2] \div g1)>>
\* A quotient by zero has no value here: Python raises ZeroDivisionError on
\* floats and a tensor quotient is inf or nan. cg divides by p.dot(z) and by
\* rdotr, which are positive whenever it gets there (b # 0, fvp positive
\* definite, cg_tol > 0).
RInv(q) ==
  CASE q[1] > 0 -> <<q[2], q[1]>>
    [] q[1] < 0 -> <<-q[2], -q[1]>>
RDiv(q1, q2) == RMul(q1, RInv(q2))
RAdd(q1, q2) ==
  LET g == Gcd(q1[2], q2[2])
  IN RNorm(q1[1] * (q2[2] \div g) + q2[1] * (q1[2] \div g), (q1[2] \div g) * q2[2])
RSub(q1, q2) == RAdd(q1, RNeg(q2))
RLt(q1, q2) == RSub(q1, q2)[1] < 0
RLe(q1, q2) == RSub(q1, q2)[1] <= 0

\* q < 10^(-e), for q >= 0
RECURSIVE LtPow10(_, _)
LtPow10(q, e) ==
  IF e = 0 THEN q[1] < q[2]
  ELSE IF q[1] >= q[2] THEN FALSE
  ELSE LtPow10(RNorm(q[1] * 10, q[2]), e - 1)

\* q < tol, for q >= 0 and tol = num / (den * 10^exp) > 0
LtTol(q, tol) == LtPow10(RMul(q, <<tol.den, tol.num>>), tol.exp)

ZeroVec == [c |-> <<0, 1>>, u |-> <<0, 0>>]
\* The vector of the two rationals q1, q2.
Vec(q1, q2) ==
  LET g == Gcd(q1[2], q2[2])
      l == (q1[2] \div g) * q2[2]
      n1 == q1[1] * (l \div q1[2])
      n2 == q2[1] * (l \div q2[2])
      h == Gcd(Abs(n1), Abs(n2))
  IN IF h = 0 THEN ZeroVec
     ELSE [c |-> RNorm(h, l), u |-> <<n1 \div h, n2 \div h>>]
Comp(v, k) == RMul(v.c, RInt(v.u[k]))
\* v.dot(w)
Dot(v, w) == RMul(RMul(v.c, w.c), RInt(v.u[1] * w.u[1] + v.u[2] * w.u[2]))
\* v + s * w
Axpy(v, s, w) ==
  Vec(RAdd(Comp(v, 1), RMul(s, Comp(w, 1))), RAdd(Comp(v, 2), RMul(s, Comp(w, 2))))
\* The product of the symmetric matrix m = <<a, o, d>> with v.
MatVec(m, v) ==
  LET y1 == m[1] * v.u[1] + m[2] * v.u[2]
      y2 == m[2] * v.u[1] + m[3] * v.u[2]
      h == Gcd(Abs(y1), Abs(y2))
  IN IF h = 0 THEN ZeroVec
     ELSE [c |-> RMul(v.c, RInt(h)), u |-> <<y1 \div h, y2 \div h>>]

\* The symmetric positive-definite operators and the targets cg is run on.
Operators ==
  {m \in (1..MaxDiag) \X ((-MaxOff)..MaxOff) \X (1..MaxDiag) : m[1] * m[3] > m[2] * m[2]}
    \cup {<<3, 2, 6>>}
Targets ==
  ({t \in ((-MaxB)..MaxB) \X ((-MaxB)..MaxB) : t # <<0, 0>>}) \cup {<<2, -8>>}
\* cg_tol = 1e-10 (line 23)
DefaultCgTol == [num |-> 1, den |-> 1, exp |-> 10]
CgTols == {DefaultCgTol, [num |-> 1, den |-> 1, exp |-> 0]}
CgIterChoices == (1..MaxCgIters) \cup {10}

nonCgVars == <<learnVars, evals, cg_iters, cg_tol, fvp_A, b>>

\* p = b.clone(); r = b.clone(); x = zeros_like(b); rdotr = r.dot(r) (133-136)
CgStart ==
  /\ pc = "cg_call"
  /\ p' = b /\ r' = b /\ cg_x' = ZeroVec
  /\ rdotr' = Dot(b, b)
  /\ rr_hist' = <<Dot(b, b)>>
  /\ cg_i' = 0
  /\ fvp_calls' = 0
  /\ pc' = "cg_loop"
  /\ UNCHANGED nonCgVars

\* v = rdotr / p.dot(z) (139)
StepSizeNoOperator(rr, dir, z) == RDiv(rr, Dot(dir, dir))
StepSize(rr, dir, z) == RDiv(rr, Dot(dir, z))

\* x += v * p (140)
UpdateXMinus(xv, v, dir) == Axpy(xv, RNeg(v), dir)
UpdateX(xv, v, dir) == Axpy(xv, v, dir)

\* The number of passes of `for i in xrange(self.cg_iters)` (137).
CgPassesOneMore(n) == n + 1
CgPasses(n) == n

\* if rdotr < self.cg_tol: break (146-147)
Breaks(rr, tol) == LtTol(rr, tol)

\* One pass of the loop (138-147).
CgIter ==
  /\ pc = "cg_loop"
  /\ cg_i < CgPasses(cg_iters)
  /\ LET z == MatVec(fvp_A, p)
         v == StepSize(rdotr, p, z)
         rn == Axpy(r, RNeg(v), z)
         newrdotr == Dot(rn, rn)
         mu == RDiv(newrdotr, rdotr)
     IN /\ fvp_calls' = fvp_calls + 1
        /\ cg_x' = UpdateX(cg_x, v, p)
        /\ r' = rn
        /\ p' = Axpy(rn, mu, p)
        /\ rdotr' = newrdotr
        /\ rr_hist' = Append(rr_hist, newrdotr)
        /\ IF Breaks(newrdotr, cg_tol)
           THEN pc' = "cg_ret" /\ UNCHANGED cg_i
           ELSE cg_i' = cg_i + 1 /\ UNCHANGED pc
  /\ UNCHANGED nonCgVars

\* The loop ran out of passes: return x (148).
CgExhaust ==
  /\ pc = "cg_loop"
  /\ cg_i >= CgPasses(cg_iters)
  /\ pc' = "cg_ret"
  /\ UNCHANGED <<nonCgVars, p, r, cg_x, rdotr, cg_i, fvp_calls, rr_hist>>

InitCgLocals ==
  /\ p = ZeroVec /\ r = ZeroVec /\ cg_x = ZeroVec /\ rdotr = <<0, 1>>
  /\ cg_i = 0 /\ fvp_calls = 0 /\ rr_hist = <<>>

\* The cg fields and locals of a run that does not call cg.
InitCgIdle ==
  /\ cg_iters = 10 /\ cg_tol = DefaultCgTol
  /\ fvp_A = <<1, 0, 1>> /\ b = ZeroVec
  /\ InitCgLocals

InitLocals ==
  /\ i_iter = 0 /\ n_ep = 0 /\ episode_len = 0 /\ trajectories = <<>> /\ i = 0
  /\ index = 0 /\ pg = 0 /\ pg_at = 0 /\ old_theta = 0 /\ fullstep = 0
  /\ expected_improve_rate = [sgn |-> 1, mag |-> 0]
  /\ result = NoResult /\ theta_before = 0 /\ ran = {}
  /\ x = 0 /\ fval = 0 /\ ls_i = 0 /\ actual_improve = 0 /\ new_model = 0
  /\ evals = <<>>

\* learn(env, max_iter, batch_size, sample_episodes) up to the end of trajectory
\* collection of each iteration.
InitTraj ==
  /\ accept_ratio = <<9, 10>> /\ ls_iters = 1 /\ batch_size = 1
  /\ max_iter = 1
  /\ sample_episodes \in 1..MaxEpisodes
  /\ env_rewards = Rewards /\ env_max_len = MaxEpisodeLen
  /\ pc = "iter"
  /\ theta = 0
  /\ InitLocals
  /\ InitCgIdle

NextTraj ==
  \/ IterStart /\ UNCHANGED <<evals, cgVars>>
  \/ EpisodeStart /\ UNCHANGED <<evals, cgVars>>
  \/ EnvStep /\ UNCHANGED <<evals, cgVars>>
  \/ Discount /\ UNCHANGED <<evals, cgVars>>

SpecTraj == InitTraj /\ [][NextTraj]_vars

\* learn(env, max_iter, batch_size, sample_episodes) on an environment whose
\* rewards are all 1 and whose episodes end within MaxEpisodeLen - 1 steps.
InitLearn ==
  /\ accept_ratio = <<9, 10>>
  /\ ls_iters = MaxLsIters
  /\ max_iter = MaxIter
  /\ batch_size \in 1..MaxBatchSize
  /\ sample_episodes = 1
  /\ env_rewards = {1} /\ env_max_len = MaxEpisodeLen - 1
  /\ pc = "iter"
  /\ theta = 0
  /\ InitLocals
  /\ InitCgIdle

NextLearn ==
  \/ IterStart /\ UNCHANGED <<evals, cgVars>>
  \/ EpisodeStart /\ UNCHANGED <<evals, cgVars>>
  \/ EnvStep /\ UNCHANGED <<evals, cgVars>>
  \/ Discount /\ UNCHANGED <<evals, cgVars>>
  \/ BatchStart /\ UNCHANGED <<evals, cgVars>>
  \/ PolicyGradient /\ UNCHANGED <<evals, cgVars>>
  \/ ZeroGradient /\ UNCHANGED <<evals, cgVars>>
  \/ ComputeStep /\ UNCHANGED <<evals, cgVars>>
  \/ LsStart /\ UNCHANGED <<evals, cgVars>>
  \/ LsIter /\ UNCHANGED <<evals, cgVars>>
  \/ LsExhaust /\ UNCHANGED <<evals, cgVars>>
  \/ Install /\ UNCHANGED <<evals, cgVars>>
  \/ BatchEnd /\ UNCHANGED <<evals, cgVars>>

SpecLearn == InitLearn /\ [][NextLearn]_vars

\* line_search(f, x, fullstep, expected_improve_rate) on any arguments.
InitLS ==
  /\ accept_ratio \in AcceptRatios
  /\ ls_iters \in 1..MaxLsIters
  /\ max_iter = 1 /\ batch_size = 1 /\ sample_episodes = 1
  /\ env_rewards = {1} /\ env_max_len = 1
  /\ pc = "ls_call"
  /\ theta \in {0, 1}
  /\ i_iter = 0 /\ n_ep = 0 /\ episode_len = 0 /\ trajectories = <<>> /\ i = 0
  /\ index = 0 /\ pg = 0 /\ pg_at = 0
  /\ old_theta = theta
  /\ fullstep \in FullSteps
  /\ expected_improve_rate \in EIRs
  /\ result = NoResult /\ theta_before = theta /\ ran = {}
  /\ x = 0 /\ fval = 0 /\ ls_i = 0 /\ actual_improve = 0 /\ new_model = 0
  /\ evals = <<>>
  /\ InitCgIdle

NextLS ==
  \/ LsStart /\ evals' = <<>> /\ UNCHANGED cgVars
  \/ LsIter /\ evals' = Append(evals, fval - actual_improve') /\ UNCHANGED cgVars
  \/ LsExhaust /\ UNCHANGED <<evals, cgVars>>

SpecLS == InitLS /\ [][NextLS]_vars

\* cg(fvp, b) for a symmetric positive-definite fvp and a target b # 0 (learn
\* calls cg with -pg only when pg is not all-zero, lines 100-105).
InitCG ==
  /\ accept_ratio = <<9, 10>> /\ ls_iters = 1 /\ batch_size = 1
  /\ max_iter = 1 /\ sample_episodes = 1
  /\ env_rewards = {1} /\ env_max_len = 1
  /\ pc = "cg_call"
  /\ theta = 0
  /\ InitLocals
  /\ cg_iters \in CgIterChoices
  /\ cg_tol \in CgTols
  /\ fvp_A \in Operators
  /\ \E t \in Targets : b = Vec(RInt(t[1]), RInt(t[2]))
  /\ InitCgLocals

NextCG == CgStart \/ CgIter \/ CgExhaust

SpecCG == InitCG /\ [][NextCG]_vars

\* ------------------------------------------------------------- claims

\* C6: after the collection of any number of episodes of any lengths, each
\* step's stored return is its reward plus reward_gamma times the return of the
\* next step of its episode, and the last step's return is its reward; rewards
\* 1, 1, 1 give 2.71, 1.9, 1.0.
C6_ReturnsStayInEpisode ==
  pc \in {"episode", "batch"} =>
    \A k \in 1..Len(trajectories) :
      LET t == trajectories[k]
          last == k = Len(trajectories) \/ trajectories[k + 1].ep # t.ep
          first == k = 1 \/ trajectories[k - 1].ep # t.ep
      IN /\ IF last
            THEN t.ret = t.rew * Scale
            ELSE t.ret * GammaDen =
                   t.rew * Scale * GammaDen + GammaNum * trajectories[k + 1].ret
         /\ ( /\ first /\ k + 2 <= Len(trajectories)
              /\ \A j \in k..(k + 2) :
                   trajectories[j].ep = t.ep /\ trajectories[j].rew = 1
              /\ k + 2 = Len(trajectories) \/ trajectories[k + 3].ep # t.ep )
            => /\ t.ret * 100 = 271 * Scale
               /\ trajectories[k + 1].ret * 100 = 190 * Scale
               /\ trajectories[k + 2].ret * 100 = 100 * Scale

\* Two episodes collected, the second of rewards 1, 1, 1 right after a first one
\* of two steps.
C6_Witness ==
  /\ pc = "batch"
  /\ Len(trajectories) = 5
  /\ trajectories[2].ep = 0 /\ trajectories[2].rew = 1
  /\ trajectories[3].ep = 1
  /\ \A j \in 3..5 : trajectories[j].rew = 1
  /\ trajectories[3].ret * 100 = 271 * Scale

\* C1: the live policy's parameters after a batch differ from those before it
\* exactly when line_search reported success for the batch, and no step of learn
\* other than the installation of an accepted step writes them.
C1_ChangedIffAccepted ==
  /\ [](pc = "batch_end" => ((theta # theta_before) <=> result[1]))
  /\ [][theta' # theta => (pc = "ls_ret" /\ result[1])]_vars

\* A batch after the first whose step was accepted and moved the parameters.
C1_Witness ==
  /\ pc = "batch_end" /\ index > 0
  /\ result[1] /\ theta # theta_before

\* C2: a batch whose gradient is all-zero within tolerance runs neither cg nor
\* line_search, leaves the parameters as they were, logs a warning, and the loop
\* goes on to the next batch.
C2_ZeroGradientSkipsBatch ==
  (pc = "batch_end" /\ AllCloseZero(pg)) =>
     /\ "warn" \in ran
     /\ ran \cap {"fvp", "cg", "line_search", "install"} = {}
     /\ theta = theta_before
     /\ ENABLED BatchEnd

\* A later batch skipped for a gradient that is not zero but within tolerance.
C2_Witness ==
  /\ pc = "batch_end" /\ index > 0
  /\ pg = 1 /\ "warn" \in ran

\* The claim's acceptance condition at candidate k, whose loss is v.
Satisfies(v, k) ==
  /\ fval - v > 0
  /\ RatioAccepts(fval - v, k, expected_improve_rate, accept_ratio)

\* C3: line_search returns (True, x + 0.5^i * fullstep) for the smallest i below
\* ls_iters whose candidate has a positive improvement and a ratio above
\* accept_ratio, and (False, x) exactly when no i has; a failing candidate never
\* ends the search.
C3_FirstSatisfyingCandidate ==
  pc = "ls_ret" =>
    IF result[1]
    THEN /\ Len(evals) \in 1..ls_iters
         /\ result[2] = x + StepFrac(fullstep, Len(evals) - 1)
         /\ Satisfies(evals[Len(evals)], Len(evals) - 1)
         /\ \A j \in 1..(Len(evals) - 1) : ~Satisfies(evals[j], j - 1)
    ELSE /\ result[2] = x /\ x = old_theta
         /\ Len(evals) = ls_iters
         /\ \A j \in 1..ls_iters : ~Satisfies(evals[j], j - 1)

\* Accepted at the third candidate after two that failed, one for no improvement
\* and one for its ratio.
C3_Witness ==
  /\ pc = "ls_ret" /\ result[1] /\ Len(evals) = 3
  /\ fval - evals[1] <= 0
  /\ fval - evals[2] > 0

\* C4: whenever line_search reports acceptance, the loss at the returned
\* parameters is strictly below the loss at x, whatever f, fullstep,
\* expected_improve_rate and accept_ratio are.
C4_AcceptedLossLower ==
  (pc = "ls_ret" /\ result[1]) =>
     /\ result[2] = x + StepFrac(fullstep, Len(evals) - 1)
     /\ evals[Len(evals)] < fval

\* Acceptance under a negative expected_improve_rate and a negative accept_ratio.
C4_Witness ==
  /\ pc = "ls_ret" /\ result[1]
  /\ expected_improve_rate.sgn = -1 /\ expected_improve_rate.mag > 0
  /\ accept_ratio[1] < 0

\* C5: from the reading of old_theta until line_search has returned, the live
\* parameters equal old_theta, each candidate is evaluated in the private copy,
\* and the live parameters become the accepted ones only by the installation
\* after a success.
C5_LivePolicyUntouched ==
  /\ pc \in {"ls_call", "ls_loop", "ls_ret"} => theta = old_theta
  /\ (pc = "ls_loop" /\ ls_i > 0) => new_model = x + StepFrac(fullstep, ls_i - 1)
  /\ (pc = "ls_ret" /\ result[1]) => new_model = result[2]
  /\ (pc = "batch_end" /\ "line_search" \in ran) =>
        theta = (IF result[1] THEN result[2] ELSE old_theta)

\* A rejected candidate sits in the private copy while the live policy still
\* holds old_theta.
C5_Witness ==
  /\ pc = "ls_loop" /\ ls_i > 0
  /\ new_model # theta

C7_CgPassesBounded ==
  /\ fvp_calls <= cg_iters
  /\ pc = "cg_loop" => (cg_i = fvp_calls /\ cg_i <= cg_iters)
  /\ pc = "cg_ret" =>
       /\ fvp_calls >= 1
       /\ Len(rr_hist) = fvp_calls + 1
       /\ \A j \in 1..(fvp_calls - 1) : ~LtTol(rr_hist[j + 1], cg_tol)
       /\ LtTol(rr_hist[fvp_calls + 1], cg_tol) \/ fvp_calls = cg_iters

\* cg ended after its first pass, on a residual that is below cg_tol and not zero,
\* with passes to spare.
C7_Witness ==
  /\ pc = "cg_ret" /\ fvp_calls = 1 /\ cg_iters > 1
  /\ rr_hist[2][1] > 0

\* 1/2 x.Ax - b.x, the quadratic cg minimises.
Energy(m, t, xv) == RSub(RMul(<<1, 2>>, Dot(xv, MatVec(m, xv))), Dot(t, xv))

\* C8 (as stated): the residual norm r.r computed by cg never increases from a
\* pass to the next, from the initial r = b on.
C8_ResidualNonIncreasing ==
  \A j \in 1..(Len(rr_hist) - 1) : RLe(rr_hist[j + 1], rr_hist[j])

\* C8 (amended): the energy 1/2 x.Ax - b.x of the iterate x never increases from
\* a pass to the next, from x = 0 on.
C8_EnergyNonIncreasing ==
  [][fvp_calls' = fvp_calls + 1 =>
       RLe(Energy(fvp_A, b, cg_x'), Energy(fvp_A, b, cg_x))]_vars

\* A pass of cg has raised the residual norm.
C8_Witness ==
  /\ fvp_calls >= 1
  /\ RLt(rr_hist[1], rr_hist[2])

\* C9: for A = [[3, 2], [2, 6]], b = [2, -8] and cg_iters = 10, cg returns exactly
\* [2, -2] after at most 2 passes, the last ended by the tolerance test; and
\* for every operator and target here, cg with at least 2 passes and the default
\* cg_tol returns x with A x = b.
C9_SolvesTwoByTwo ==
  (pc = "cg_ret" /\ cg_tol = DefaultCgTol /\ cg_iters >= 2) =>
     /\ MatVec(fvp_A, cg_x) = b
     /\ ( /\ fvp_A = <<3, 2, 6>>
          /\ b = Vec(RInt(2), RInt(-8))
          /\ cg_iters = 10 )
        => /\ cg_x = Vec(RInt(2), RInt(-2))
           /\ fvp_calls <= 2
           /\ cg_i < cg_iters
           /\ LtTol(rdotr, cg_tol)

\* The run of the claim: two passes, the second ended by the tolerance test.
C9_Witness ==
  /\ pc = "cg_ret" /\ cg_tol = DefaultCgTol /\ cg_iters = 10
  /\ fvp_A = <<3, 2, 6>> /\ b = Vec(RInt(2), RInt(-8))
  /\ fvp_calls = 2

====
